---- MODULE Spec2Model ----
(***************************************************************************)
(* A model of the SQLite wrapper of MSQLite3.h / MSQLite3.cpp: the         *)
(* ResultSet container and its cursor, PreparedStatement binding and       *)
(* handle ownership, the SQLite3 connection and the TransactionGuard.      *)
(* The engine (the sqlite3 C API) is external: each call returns a result   *)
(* drawn from the outcomes the engine can produce.                         *)
(***************************************************************************)
EXTENDS Integers, Sequences, FiniteSets, TLC

VARIABLES
    container,      \* ResultSet::container: the rows, each a map name -> text
    iterator,       \* ResultSet::iterator as a position: 1..Len+1, Len+1 = end()
    rsLast,         \* the last ResultSet call: its arguments and what it returned
    rsAdds,         \* history: addRecord calls made (either overload)
    rsZero,         \* history: addRecord(count, row, cols) calls made with count = 0
    rsRunStart,     \* history: cursor position right after the last addRecord call
    rsNexts,        \* history: next() calls made since the last addRecord call
    paramCount,     \* PreparedStatement::paramCount: the '?' characters of the query
    rc,             \* PreparedStatement::rc: the last engine result stored
    psLast,         \* the last PreparedStatement call, its engine results, its outcome
    lastStep,       \* engine: the result of the statement's most recent sqlite3_step since its reset
    life,           \* per object: "none" (no such object yet), "live", "dead"
    stmt,           \* per object: PreparedStatement::stmt, nullptr or a handle
    hstate,         \* engine, per handle: "unused", "compiled", "finalized"
    finCalls,       \* engine, per address: sqlite3_finalize calls received
    badFinal,       \* history: a finalize call on something its caller did not own
    mvLast,         \* the last ownership operation
    cLife,          \* the SQLite3 object: "none", "live", "failed" (constructor threw), "dead"
    isOpened,       \* SQLite3::isOpened
    result,         \* SQLite3::result
    errMsg,         \* SQLite3::errMsg: nullptr or the buffer the engine stored there
    bufFrees,       \* engine, per message buffer it allocated: sqlite3_free calls received
    dbCloses,       \* engine: sqlite3_close calls received
    cnLast,         \* the last SQLite3 call, the engine's answers, its outcome
    gLife,          \* per TransactionGuard: "none", "active", "failed" (constructor threw), "dead"
    gBegun,         \* per guard: constructed by TransactionGuard(db), so BEGIN was issued
    gEnds,          \* per guard: END TRANSACTION statements its destructor issued
    gEscaped,       \* per guard: an exception left its destructor
    gExit           \* per guard: how its scope was left, and the engine's answer to END

rsVars == <<container, iterator, rsLast, rsAdds, rsZero, rsRunStart, rsNexts>>
psVars == <<paramCount, rc, psLast, lastStep>>
mvVars == <<life, stmt, hstate, finCalls, badFinal, mvLast>>
cnVars == <<cLife, isOpened, result, errMsg, bufFrees, dbCloses, cnLast>>
tgVars == <<gLife, gBegun, gEnds, gEscaped, gExit>>
vars == <<rsVars, psVars, mvVars, cnVars, tgVars>>

\* ------------------------------------------------------------------ bounds
MaxRows == 3        \* rows a ResultSet may hold
MaxAdds == 4        \* addRecord calls on one ResultSet
MaxPastEnd == 2     \* next() calls made once the cursor is past the end

\* ------------------------------------------------------------ ResultSet
NULL == "<nullptr>"
Cols == {"a", "b"}
Vals == {NULL, "1"}
MaxCount == Cardinality(Cols)  \* column count given to addRecord(count, row, cols)
Names == {"a", "zz"}

\* std::unordered_map<std::string, std::string> with keys among Cols
Records == UNION {[D -> {"", "1"}] : D \in SUBSET Cols}

begin(c) == 1
end(c) == Len(c) + 1

\* unordered_map::insert: an existing key keeps its value
insert(m, k, v) ==
    IF k \in DOMAIN m THEN m
    ELSE [x \in DOMAIN m \cup {k} |-> IF x = k THEN v ELSE m[x]]

\* the loop of addRecord(count, row, cols): for (i = 0; i < count; i++)
RECURSIVE icontain(_, _, _, _, _)
icontain(m, i, count, row, cols) ==
    IF i > count THEN m
    ELSE icontain(insert(m, cols[i], IF row[i] # NULL THEN row[i] ELSE ""),
                  i + 1, count, row, cols)

\* ResultSet::ResultSet()
ResultSet == [container |-> <<>>, iterator |-> begin(<<>>)]

\* a variant that appends and leaves the cursor where it was
addRecordRowKeepsCursor(c, it, record) ==
    [container |-> Append(c, record), iterator |-> it]

\* ResultSet::addRecord(Container::value_type&& record)
addRecordRow(c, it, record) ==
    LET c2 == Append(c, record)
    IN  [container |-> c2, iterator |-> begin(c2)]

\* ResultSet::addRecord(int count, const char** row, const char** cols)
addRecord(c, it, count, row, cols) ==
    IF count # 0
    THEN addRecordRow(c, it, icontain(<<>>, 1, count, row, cols))
    ELSE [container |-> c, iterator |-> it]

\* ResultSet::operator bool()
bool(c, it) == Len(c) > 0 /\ it # end(c)

\* a variant that advances without looking at end()
nextAlways(c, it) ==
    [iterator |-> it + 1, ret |-> (it + 1) # end(c)]

\* ResultSet::next()
next(c, it) ==
    LET it2 == IF it # end(c) THEN it + 1 ELSE it
    IN  [iterator |-> it2, ret |-> it2 # end(c)]

\* ResultSet::count()
count(c) == Len(c)

\* what dereferencing end() can do: the lookup runs on whatever lies past the
\* rows (or on a null pointer when the container is empty)
DerefEnd == {"crash", "garbage", "ColumnNotFound"}

\* a variant that returns the default value for a missing column
getNoThrow(c, it, name) ==
    IF it = end(c) THEN DerefEnd
    ELSE {"value"}

\* ResultSet::get<T>(name): the outcomes; the call writes nothing
get(c, it, name) ==
    IF it = end(c) THEN DerefEnd
    ELSE IF name \in DOMAIN c[it] THEN {"value"} ELSE {"ColumnNotFound"}

RsCall(op, cnt, name, ret, outcome, it0) ==
    [op |-> op, count |-> cnt, name |-> name, ret |-> ret,
     outcome |-> outcome, it0 |-> it0]

RsAlive == rsLast.outcome # "crash"

RsLast0 == RsCall("new", 0, "", FALSE, "ok", 1)

RsAddRecord(cnt, row, cols) ==
    /\ RsAlive
    /\ rsAdds < MaxAdds
    /\ Len(container) < MaxRows
    /\ LET r == addRecord(container, iterator, cnt, row, cols)
       IN  /\ container' = r.container
           /\ iterator' = r.iterator
           /\ rsRunStart' = r.iterator
    /\ rsLast' = RsCall("addRecord", cnt, "", FALSE, "ok", iterator)
    /\ rsAdds' = rsAdds + 1
    /\ rsZero' = IF cnt = 0 THEN rsZero + 1 ELSE rsZero
    /\ rsNexts' = 0
    /\ UNCHANGED <<psVars, mvVars, cnVars, tgVars>>

RsAddRecordRow(record) ==
    /\ RsAlive
    /\ rsAdds < MaxAdds
    /\ Len(container) < MaxRows
    /\ LET r == addRecordRow(container, iterator, record)
       IN  /\ container' = r.container
           /\ iterator' = r.iterator
           /\ rsRunStart' = r.iterator
    /\ rsLast' = RsCall("addRecordRow", Cardinality(DOMAIN record), "", FALSE, "ok", iterator)
    /\ rsAdds' = rsAdds + 1
    /\ rsNexts' = 0
    /\ UNCHANGED rsZero
    /\ UNCHANGED <<psVars, mvVars, cnVars, tgVars>>

RsNext ==
    /\ RsAlive
    /\ rsRunStart + rsNexts < end(container) + MaxPastEnd
    /\ LET r == next(container, iterator)
       IN  /\ iterator' = r.iterator
           /\ rsLast' = RsCall("next", 0, "", r.ret, "ok", iterator)
    /\ rsNexts' = rsNexts + 1
    /\ UNCHANGED <<container, rsAdds, rsZero, rsRunStart>>
    /\ UNCHANGED <<psVars, mvVars, cnVars, tgVars>>

RsGet(name) ==
    /\ RsAlive
    /\ \E o \in get(container, iterator, name) :
          rsLast' = RsCall("get", 0, name, FALSE, o, iterator)
    /\ UNCHANGED <<container, iterator, rsAdds, rsZero, rsRunStart, rsNexts>>
    /\ UNCHANGED <<psVars, mvVars, cnVars, tgVars>>

NextRS ==
    \/ \E cnt \in 0..MaxCount :
          \E row \in [1..cnt -> Vals] : \E cols \in [1..cnt -> Cols] :
             RsAddRecord(cnt, row, cols)
    \/ \E record \in Records : RsAddRecordRow(record)
    \/ RsNext
    \/ \E name \in Names : RsGet(name)

\* ---------------------------------------------------- PreparedStatement
MaxParams == 3      \* placeholders of a query
MaxSteps == 2       \* rows a statement yields before its last step

SQLITE_OK == "SQLITE_OK"
SQLITE_ERROR == "SQLITE_ERROR"
SQLITE_ROW == "SQLITE_ROW"
SQLITE_DONE == "SQLITE_DONE"

\* what the engine can answer to a bind, reset or exec call: success or an error code
EngineResults == {SQLITE_OK, SQLITE_ERROR}

\* prepareParam(param, index), every overload: rc = sqlite3_bind_xxx(stmt, index, ...)
prepareParam(st, index, res) ==
    [rc |-> res, attempts |-> Append(st.attempts, index)]

\* the pack expansion of bind: prepareParam(args, ++index)... in argument order
RECURSIVE expander(_, _, _, _)
expander(st, index, n, res) ==
    IF index = n THEN st
    ELSE expander(prepareParam(st, index + 1, res[index + 1]), index + 1, n, res)

\* PreparedStatement::bind(args...): n values, res[i] the engine's answer at position i
bind(pc, rc0, n, res) ==
    IF n # pc
    THEN [rc |-> rc0, attempts |-> <<>>, outcome |-> "Count of arguments does not equal count of questionmarks"]
    ELSE LET st == expander([rc |-> rc0, attempts |-> <<>>], 0, n, res)
         IN  [rc |-> st.rc, attempts |-> st.attempts,
              outcome |-> IF st.rc # SQLITE_OK THEN "sqlite3_errmsg" ELSE "ok"]

\* sqlite3_clear_bindings(stmt): always SQLITE_OK
sqlite3_clear_bindings == SQLITE_OK

\* sqlite3_reset(stmt): the error of the most recent step if it failed, else SQLITE_OK
sqlite3_reset(step) == IF step \in {SQLITE_OK, SQLITE_ROW, SQLITE_DONE} THEN SQLITE_OK ELSE step

\* PreparedStatement::reset(): rc = sqlite3_clear_bindings; rc = sqlite3_reset
reset(rc0, step) ==
    LET rc1 == sqlite3_clear_bindings
        rc2 == sqlite3_reset(step)
    IN  [rc |-> rc2, outcome |-> "ok"]

\* PreparedStatement::execute(): step while SQLITE_ROW; the last step's result stays in rc
RECURSIVE stepLoop(_, _)
stepLoop(rows, final) ==
    LET r == IF rows > 0 THEN SQLITE_ROW ELSE final
    IN  IF r = SQLITE_ROW THEN stepLoop(rows - 1, final) ELSE r

execute(rc0, rows, final) ==
    LET rc1 == stepLoop(rows, final)
    IN  [rc |-> rc1, outcome |-> IF rc1 # SQLITE_DONE THEN "sqlite3_errmsg" ELSE "ok"]

\* PreparedStatement::executeQuery(): one addRecord per SQLITE_ROW step; rc is not written
RECURSIVE queryRows(_, _, _)
queryRows(rs, rows, record) ==
    IF rows = 0 THEN rs
    ELSE queryRows(addRecordRow(rs.container, rs.iterator, record), rows - 1, record)

executeQuery(rc0, rows, final, record) ==
    [rc |-> rc0, outcome |-> "ok", rs |-> queryRows(ResultSet, rows, record)]

PsCall(op, n, res, attempts, outcome, rows) ==
    [op |-> op, n |-> n, res |-> res, attempts |-> attempts, outcome |-> outcome,
     rows |-> rows]

PsBind(n, res) ==
    /\ LET r == bind(paramCount, rc, n, res)
       IN  /\ rc' = r.rc
           /\ psLast' = PsCall("bind", n, res, r.attempts, r.outcome, 0)
    /\ UNCHANGED <<paramCount, lastStep>>
    /\ UNCHANGED <<rsVars, mvVars, cnVars, tgVars>>

PsReset ==
    /\ LET r == reset(rc, lastStep)
       IN  /\ rc' = r.rc
           /\ psLast' = PsCall("reset", 0, <<>>, <<>>, r.outcome, 0)
    /\ lastStep' = SQLITE_OK
    /\ UNCHANGED paramCount
    /\ UNCHANGED <<rsVars, mvVars, cnVars, tgVars>>

PsExecute(rows, final) ==
    /\ LET r == execute(rc, rows, final)
       IN  /\ rc' = r.rc
           /\ psLast' = PsCall("execute", 0, <<>>, <<>>, r.outcome, rows)
    /\ lastStep' = final
    /\ UNCHANGED paramCount
    /\ UNCHANGED <<rsVars, mvVars, cnVars, tgVars>>

PsExecuteQuery(rows, final, record) ==
    /\ LET r == executeQuery(rc, rows, final, record)
       IN  /\ rc' = r.rc
           /\ psLast' = PsCall("executeQuery", 0, <<>>, <<>>, r.outcome, count(r.rs.container))
    /\ lastStep' = final
    /\ UNCHANGED paramCount
    /\ UNCHANGED <<rsVars, mvVars, cnVars, tgVars>>

PsLast0 == PsCall("new", 0, <<>>, <<>>, "ok", 0)

NextPS ==
    \/ \E n \in 0..(MaxParams + 1) : \E res \in [1..n -> EngineResults] : PsBind(n, res)
    \/ PsReset
    \/ \E rows \in 0..MaxSteps : \E final \in {SQLITE_DONE, SQLITE_ERROR} : PsExecute(rows, final)
    \/ \E rows \in 0..MaxSteps : \E final \in {SQLITE_DONE, SQLITE_ERROR} :
          \E record \in Records : PsExecuteQuery(rows, final, record)

\* -------------------------------------- PreparedStatement: handle ownership
MaxObjs == 3        \* PreparedStatement objects of a run
MaxHandles == 2     \* statements the engine compiles in a run
nullptr == 0

Objs == 1..MaxObjs
Handles == 1..MaxHandles
\* an address that is no statement of the engine
Wild == MaxHandles + 1
\* what an uninitialized sqlite3_stmt* member can hold
Indeterminate == {nullptr} \cup Handles \cup {Wild}

\* sqlite3_finalize(p) as called by object o: the engine's bookkeeping
finalize(m, o, p) ==
    [m EXCEPT !.finCalls[p] = @ + 1,
              !.hstate = IF p \in Handles /\ m.hstate[p] = "compiled"
                         THEN [m.hstate EXCEPT ![p] = "finalized"] ELSE m.hstate,
              !.badFinal = \/ m.badFinal
                           \/ p \notin Handles
                           \/ m.hstate[p] # "compiled"
                           \/ m.life[o] # "live"]

\* PreparedStatement::operator=(PreparedStatement&& ps)
opAssign(m, this, ps) ==
    LET m1 == IF m.stmt[this] # nullptr THEN finalize(m, this, m.stmt[this]) ELSE m
        m2 == [m1 EXCEPT !.stmt[this] = m1.stmt[ps]]
    IN  [m2 EXCEPT !.stmt[ps] = nullptr]

\* PreparedStatement::PreparedStatement(PreparedStatement&& ps): no member is
\* initialized before *this = std::move(ps) reads this->stmt
moveCtor(m, this, ps, garbage) ==
    LET m0 == [m EXCEPT !.stmt[this] = garbage]
        m1 == opAssign(m0, this, ps)
    IN  [m1 EXCEPT !.life[this] = "live"]

\* PreparedStatement::~PreparedStatement()
dtor(m, this) ==
    LET m1 == IF m.stmt[this] # nullptr THEN finalize(m, this, m.stmt[this]) ELSE m
    IN  [m1 EXCEPT !.life[this] = "dead"]

\* PreparedStatement(db, query, args...): stmt(nullptr), then sqlite3_prepare_v3
ctor(m, this, h, prepRes) ==
    IF prepRes = SQLITE_OK
    THEN [m EXCEPT !.stmt[this] = h, !.hstate[h] = "compiled", !.life[this] = "live"]
    ELSE m

MvState ==
    [life |-> life, stmt |-> stmt, hstate |-> hstate, finCalls |-> finCalls,
     badFinal |-> badFinal]

MvSet(m) ==
    /\ life' = m.life
    /\ stmt' = m.stmt
    /\ hstate' = m.hstate
    /\ finCalls' = m.finCalls
    /\ badFinal' = m.badFinal

MvCreate(o, prepRes) ==
    /\ life[o] = "none"
    /\ \E h \in Handles :
          /\ hstate[h] = "unused"
          /\ \A k \in Handles : k < h => hstate[k] # "unused"
          /\ MvSet(ctor(MvState, o, h, prepRes))
    /\ mvLast' = [op |-> "ctor", this |-> o, ps |-> 0]
    /\ UNCHANGED <<rsVars, psVars, cnVars, tgVars>>

MvMoveCtor(o, src, garbage) ==
    /\ life[o] = "none"
    /\ life[src] = "live"
    /\ MvSet(moveCtor(MvState, o, src, garbage))
    /\ mvLast' = [op |-> "moveCtor", this |-> o, ps |-> src]
    /\ UNCHANGED <<rsVars, psVars, cnVars, tgVars>>

MvMoveAssign(o, src) ==
    /\ life[o] = "live"
    /\ life[src] = "live"
    /\ MvSet(opAssign(MvState, o, src))
    /\ mvLast' = [op |-> "opAssign", this |-> o, ps |-> src]
    /\ UNCHANGED <<rsVars, psVars, cnVars, tgVars>>

MvDestroy(o) ==
    /\ life[o] = "live"
    /\ MvSet(dtor(MvState, o))
    /\ mvLast' = [op |-> "dtor", this |-> o, ps |-> 0]
    /\ UNCHANGED <<rsVars, psVars, cnVars, tgVars>>

NextMove ==
    \/ \E o \in Objs : \E prepRes \in EngineResults : MvCreate(o, prepRes)
    \/ \E o \in Objs : \E src \in Objs \ {o} : \E garbage \in Indeterminate :
          MvMoveCtor(o, src, garbage)
    \/ \E o \in Objs : \E src \in Objs : MvMoveAssign(o, src)
    \/ \E o \in Objs : MvDestroy(o)

\* ------------------------------------------------------------ SQLite3
MaxBufs == 2        \* error message buffers the engine allocates for raw calls

Sqls == {NULL, "", "SELECT 1"}

CnState ==
    [isOpened |-> isOpened, result |-> result, errMsg |-> errMsg,
     bufFrees |-> bufFrees, dbCloses |-> dbCloses]

\* sqlite3_exec(db, sql, callback, data, &errMsg) answering res: on failure the
\* engine stores a newly allocated message in *errMsg, on success it stores 0
sqlite3_exec(m, res) ==
    IF res = SQLITE_OK
    THEN [m EXCEPT !.errMsg = nullptr]
    ELSE [m EXCEPT !.bufFrees = Append(@, 0), !.errMsg = Len(m.bufFrees) + 1]

\* sqlite3_free(p)
sqlite3_free(m, p) == [m EXCEPT !.bufFrees[p] = @ + 1]

\* SQLite3::SQLite3(dbPath, createStmt): errMsg(nullptr), sqlite3_open, then the
\* script if one is given; the message of the throw is built with "+ errMsg"
SQLite3(m, openRes, createStmt, execRes) ==
    LET m0 == [m EXCEPT !.errMsg = nullptr]
        m1 == [m0 EXCEPT !.result = openRes, !.isOpened = (openRes = SQLITE_OK)]
        m2 == IF createStmt # NULL
              THEN [sqlite3_exec(m1, execRes) EXCEPT !.result = execRes]
              ELSE m1
    IN  [m |-> m2,
         calls |-> IF createStmt # NULL THEN 1 ELSE 0,
         outcomes |-> IF m2.result # SQLITE_OK
                      THEN (IF m2.errMsg = nullptr THEN {"throw", "crash"} ELSE {"throw"})
                      ELSE {"ok"}]

\* SQLite3::~SQLite3()
SQLite3_dtor(m) ==
    LET m1 == IF m.errMsg # nullptr THEN sqlite3_free(m, m.errMsg) ELSE m
    IN  IF m1.isOpened THEN [m1 EXCEPT !.dbCloses = @ + 1] ELSE m1

\* SQLite3::isPrepared()
isPrepared(m) == m.isOpened

\* a variant that hands every sql to the engine
SQLite3_executeNoCheck(m, sql, res) ==
    [m |-> [sqlite3_exec(m, res) EXCEPT !.result = res], calls |-> 1,
     outcome |-> IF res # SQLITE_OK THEN "errMsg" ELSE "ok"]

\* SQLite3::execute(sql)
SQLite3_execute(m, sql, res) ==
    IF sql # NULL
    THEN [m |-> [sqlite3_exec(m, res) EXCEPT !.result = res], calls |-> 1,
          outcome |-> IF res # SQLITE_OK THEN "errMsg" ELSE "ok"]
    ELSE [m |-> m, calls |-> 0, outcome |-> "No sql parameter"]

\* the row callback of executeQuery: rs->addRecord(count, row, columns), once per row
RECURSIVE rowCallbacks(_, _)
rowCallbacks(rs, rows) ==
    IF rows = 0 THEN rs
    ELSE rowCallbacks(addRecord(rs.container, rs.iterator, 1, <<"1">>, <<"a">>), rows - 1)

\* SQLite3::executeQuery(sql)
SQLite3_executeQuery(m, sql, res, rows) ==
    IF sql # NULL
    THEN [m |-> [sqlite3_exec(m, res) EXCEPT !.result = res], calls |-> 1,
          outcome |-> IF res # SQLITE_OK THEN "errMsg" ELSE "ok",
          retval |-> rowCallbacks(ResultSet, rows)]
    ELSE [m |-> m, calls |-> 0, outcome |-> "No sql parameter", retval |-> ResultSet]

\* SQLite3::beginTransaction()
beginTransaction(m, res) ==
    [m |-> [sqlite3_exec(m, res) EXCEPT !.result = res], calls |-> 1,
     outcome |-> IF res # SQLITE_OK THEN "errMsg" ELSE "ok"]

\* SQLite3::endTransaction()
endTransaction(m, res) ==
    [m |-> [sqlite3_exec(m, res) EXCEPT !.result = res], calls |-> 1,
     outcome |-> IF res # SQLITE_OK THEN "errMsg" ELSE "ok"]

CnCall(op, sql, open, res, outcome, calls, rows) ==
    [op |-> op, sql |-> sql, open |-> open, res |-> res, outcome |-> outcome,
     calls |-> calls, rows |-> rows, result0 |-> result, errMsg0 |-> errMsg]

CnSet(m) ==
    /\ isOpened' = m.isOpened
    /\ result' = m.result
    /\ errMsg' = m.errMsg
    /\ bufFrees' = m.bufFrees
    /\ dbCloses' = m.dbCloses

\* the engine has room for the message of a failing call
Room(res) == res = SQLITE_OK \/ Len(bufFrees) < MaxBufs

CnConstruct(openRes, createStmt, execRes) ==
    /\ cLife = "none"
    /\ LET r == SQLite3(CnState, openRes, createStmt, execRes)
       IN  /\ CnSet(r.m)
           /\ \E o \in r.outcomes :
                 /\ cLife' = IF o = "ok" THEN "live" ELSE "failed"
                 /\ cnLast' = CnCall("SQLite3", createStmt, openRes,
                                     IF createStmt # NULL THEN execRes ELSE "", o, r.calls, 0)
    /\ UNCHANGED <<rsVars, psVars, mvVars, tgVars>>

CnExecute(sql, res) ==
    /\ cLife = "live"
    /\ Room(res)
    /\ LET r == SQLite3_execute(CnState, sql, res)
       IN  /\ CnSet(r.m)
           /\ cnLast' = CnCall("execute", sql, "", IF r.calls > 0 THEN res ELSE "",
                               r.outcome, r.calls, 0)
    /\ UNCHANGED <<cLife, rsVars, psVars, mvVars, tgVars>>

CnExecuteQuery(sql, res, rows) ==
    /\ cLife = "live"
    /\ Room(res)
    /\ LET r == SQLite3_executeQuery(CnState, sql, res, rows)
       IN  /\ CnSet(r.m)
           /\ cnLast' = CnCall("executeQuery", sql, "", IF r.calls > 0 THEN res ELSE "",
                               r.outcome, r.calls, count(r.retval.container))
    /\ UNCHANGED <<cLife, rsVars, psVars, mvVars, tgVars>>

CnBegin(res) ==
    /\ cLife = "live"
    /\ Room(res)
    /\ LET r == beginTransaction(CnState, res)
       IN  /\ CnSet(r.m)
           /\ cnLast' = CnCall("beginTransaction", "BEGIN TRANSACTION", "", res,
                               r.outcome, r.calls, 0)
    /\ UNCHANGED <<cLife, rsVars, psVars, mvVars, tgVars>>

CnEnd(res) ==
    /\ cLife = "live"
    /\ Room(res)
    /\ LET r == endTransaction(CnState, res)
       IN  /\ CnSet(r.m)
           /\ cnLast' = CnCall("endTransaction", "END TRANSACTION", "", res,
                               r.outcome, r.calls, 0)
    /\ UNCHANGED <<cLife, rsVars, psVars, mvVars, tgVars>>

\* a TransactionGuard holds a plain pointer to the connection: its scope lies
\* inside the connection's lifetime
CnDestroy ==
    /\ cLife = "live"
    /\ \A g \in DOMAIN gLife : gLife[g] # "active"
    /\ CnSet(SQLite3_dtor(CnState))
    /\ cLife' = "dead"
    /\ cnLast' = CnCall("dtor", "", "", "", "ok", 0, 0)
    /\ UNCHANGED <<rsVars, psVars, mvVars, tgVars>>

NextConn ==
    \/ \E openRes \in EngineResults : \E createStmt \in {NULL, "CREATE TABLE t(a)"} :
          \E execRes \in EngineResults : CnConstruct(openRes, createStmt, execRes)
    \/ \E sql \in Sqls : \E res \in EngineResults : CnExecute(sql, res)
    \/ \E sql \in Sqls : \E res \in EngineResults : \E rows \in 0..MaxSteps :
          CnExecuteQuery(sql, res, rows)
    \/ \E res \in EngineResults : CnBegin(res)
    \/ \E res \in EngineResults : CnEnd(res)
    \/ CnDestroy

\* ------------------------------------------------------- TransactionGuard
MaxGuards == 2      \* TransactionGuard objects of a run

Guards == 1..MaxGuards

\* TransactionGuard::TransactionGuard(SQLite3* db): db->beginTransaction()
TransactionGuard(m, res) ==
    LET r == beginTransaction(m, res)
    IN  [m |-> r.m, outcome |-> r.outcome, calls |-> r.calls]

\* a destructor without the try/catch
TransactionGuard_dtorNoCatch(m, res) ==
    LET r == endTransaction(m, res)
    IN  [m |-> r.m, outcome |-> r.outcome, ends |-> r.calls, escaped |-> r.outcome # "ok"]

\* TransactionGuard::~TransactionGuard(): try { db->endTransaction(); } catch (...) {}
TransactionGuard_dtor(m, res) ==
    LET r == endTransaction(m, res)
    IN  [m |-> r.m, outcome |-> r.outcome, ends |-> r.calls, escaped |-> FALSE]

TgConstruct(g, res) ==
    /\ cLife = "live"
    /\ gLife[g] = "none"
    /\ LET r == TransactionGuard(CnState, res)
       IN  /\ CnSet(r.m)
           /\ gLife' = [gLife EXCEPT ![g] = IF r.outcome = "ok" THEN "active" ELSE "failed"]
           /\ cnLast' = CnCall("beginTransaction", "BEGIN TRANSACTION", "", res,
                               r.outcome, r.calls, 0)
    /\ gBegun' = [gBegun EXCEPT ![g] = TRUE]
    /\ UNCHANGED <<cLife, gEnds, gEscaped, gExit, rsVars, psVars, mvVars>>

\* the implicit copy constructor: the pointer is copied, nothing is issued
TgCopy(g, src) ==
    /\ gLife[g] = "none"
    /\ gLife[src] = "active"
    /\ gLife' = [gLife EXCEPT ![g] = "active"]
    /\ UNCHANGED <<gBegun, gEnds, gEscaped, gExit, cnVars, rsVars, psVars, mvVars>>

\* the guard's scope is left, by reaching its end or by an exception passing through
TgExit(g, path, res) ==
    /\ cLife = "live"
    /\ gLife[g] = "active"
    /\ LET r == TransactionGuard_dtor(CnState, res)
       IN  /\ CnSet(r.m)
           /\ gEnds' = [gEnds EXCEPT ![g] = @ + r.ends]
           /\ gEscaped' = [gEscaped EXCEPT ![g] = r.escaped]
           /\ cnLast' = CnCall("endTransaction", "END TRANSACTION", "", res,
                               r.outcome, r.ends, 0)
    /\ gExit' = [gExit EXCEPT ![g] = [path |-> path, res |-> res]]
    /\ gLife' = [gLife EXCEPT ![g] = "dead"]
    /\ UNCHANGED <<cLife, gBegun, rsVars, psVars, mvVars>>

NextTG ==
    \/ \E openRes \in EngineResults : \E createStmt \in {NULL, "CREATE TABLE t(a)"} :
          \E execRes \in EngineResults : CnConstruct(openRes, createStmt, execRes)
    \/ \E g \in Guards : \E res \in EngineResults : TgConstruct(g, res)
    \/ \E g \in Guards : \E src \in Guards \ {g} : TgCopy(g, src)
    \/ \E g \in Guards : \E path \in {"normal", "exception"} : \E res \in EngineResults :
          TgExit(g, path, res)
    \/ CnDestroy

\* ------------------------------------------------------------ specifications

\* the state before any call; P: the placeholder counts of the statement
InitWith(P) ==
    /\ container = ResultSet.container
    /\ iterator = ResultSet.iterator
    /\ rsLast = RsLast0
    /\ rsAdds = 0
    /\ rsZero = 0
    /\ rsRunStart = ResultSet.iterator
    /\ rsNexts = 0
    /\ paramCount \in P
    /\ rc = SQLITE_OK
    /\ psLast = PsLast0
    /\ lastStep = SQLITE_OK
    /\ life = [o \in Objs |-> "none"]
    /\ stmt = [o \in Objs |-> nullptr]
    /\ hstate = [h \in Handles |-> "unused"]
    /\ finCalls = [p \in Handles \cup {Wild} |-> 0]
    /\ badFinal = FALSE
    /\ mvLast = [op |-> "none", this |-> 0, ps |-> 0]
    /\ cLife = "none"
    /\ isOpened = FALSE
    /\ result = SQLITE_OK
    /\ errMsg = nullptr
    /\ bufFrees = <<>>
    /\ dbCloses = 0
    /\ cnLast = [op |-> "none", sql |-> "", open |-> "", res |-> "", outcome |-> "ok",
                 calls |-> 0, rows |-> 0, result0 |-> SQLITE_OK, errMsg0 |-> nullptr]
    /\ gLife = [g \in Guards |-> "none"]
    /\ gBegun = [g \in Guards |-> FALSE]
    /\ gEnds = [g \in Guards |-> 0]
    /\ gEscaped = [g \in Guards |-> FALSE]
    /\ gExit = [g \in Guards |-> [path |-> "", res |-> ""]]

Init == InitWith({0})

\* a statement compiled from a query with 0..MaxParams placeholders
InitPS == InitWith(0..MaxParams)

SpecRS == Init /\ [][NextRS]_vars
SpecPS == InitPS /\ [][NextPS]_vars
SpecMove == Init /\ [][NextMove]_vars
SpecConn == Init /\ [][NextConn]_vars
SpecTG == Init /\ [][NextTG]_vars

\* ------------------------------------------------------------ ResultSet claims

\* where the cursor stands
OnRow(c, it) == it \in 1..Len(c)
NotAKey(c, it, name) == ~OnRow(c, it) \/ name \notin DOMAIN c[it]
Min(a, b) == IF a < b THEN a ELSE b
IsAdd == rsLast.op \in {"addRecord", "addRecordRow"}

\* C3 as stated: in every ResultSet state (empty, on a row, past the end) get<T>(name)
\* with a name that is no key of the current row fails with ColumnNotFound and
\* leaves the rows and the cursor unchanged.
C3_AnyState ==
    [][(rsLast'.op = "get" /\ NotAKey(container, iterator, rsLast'.name))
          => (/\ rsLast'.outcome = "ColumnNotFound"
              /\ container' = container
              /\ iterator' = iterator)]_vars

\* C3 as amended: when the cursor is on a valid row, get<T>(name) with a name that
\* is no key of that row fails with ColumnNotFound and leaves the rows and the
\* cursor unchanged; with the cursor past the end (or no rows) the call
\* dereferences end() and nothing is promised.
C3_OnValidRow ==
    [][(/\ rsLast'.op = "get"
        /\ OnRow(container, iterator)
        /\ rsLast'.name \notin DOMAIN container[iterator])
          => (/\ rsLast'.outcome = "ColumnNotFound"
              /\ container' = container
              /\ iterator' = iterator)]_vars

C3_Witness ==
    /\ rsLast.op = "get"
    /\ rsLast.outcome = "ColumnNotFound"
    /\ iterator = 2
    /\ Len(container) = 3
    /\ DOMAIN container[iterator] = {"b"}
    /\ rsLast.name = "a"

\* C4 as stated: after k addRecord calls (either overload, any column count, zero
\* included, next calls in between) count() = k, and right after every addRecord
\* call the cursor is on the first row.
C4_EveryCall ==
    /\ count(container) = rsAdds
    /\ IsAdd => (bool(container, iterator) /\ iterator = begin(container))

\* C4 as amended: count() equals the number of addRecord calls that were the
\* row overload or the array overload with a non-zero column count, and right
\* after each such call the cursor is on the first row; an array-overload call
\* with count = 0 adds nothing and leaves the cursor where it was.
C4_NonZeroCalls ==
    /\ count(container) = rsAdds - rsZero
    /\ (IsAdd /\ ~(rsLast.op = "addRecord" /\ rsLast.count = 0))
          => (bool(container, iterator) /\ iterator = begin(container))
    /\ (rsLast.op = "addRecord" /\ rsLast.count = 0) => iterator = rsLast.it0

C4_Witness ==
    /\ rsLast.op = "addRecord"
    /\ rsLast.count = 2
    /\ rsLast.it0 = 3
    /\ iterator = 1
    /\ count(container) = 3
    /\ rsZero = 1

\* C8: next() moves the cursor one position forward when it is on a valid row and
\* returns whether the new position is a valid row; past the end (or with no rows)
\* it leaves the cursor alone and returns false. So after k next() calls from
\* position p with no addRecord in between, the call returns true iff p + k is
\* still a row: from the first row of n rows the n-th call is the first to return
\* false, and operator bool is false from then on.
C8_NextAdvances ==
    /\ rsLast.op = "next" =>
          /\ IF OnRow(container, rsLast.it0)
             THEN iterator = rsLast.it0 + 1 /\ rsLast.ret = OnRow(container, iterator)
             ELSE iterator = rsLast.it0 /\ rsLast.ret = FALSE
          /\ rsLast.ret = (rsRunStart + rsNexts <= count(container))
          /\ iterator = Min(rsRunStart + rsNexts, end(container))
    /\ (rsLast.op \in {"next", "get"} /\ rsRunStart + rsNexts > count(container))
          => ~bool(container, iterator)
    /\ count(container) = 0 => ~bool(container, iterator)
    /\ OnRow(container, iterator) \/ iterator = end(container)

C8_Witness ==
    /\ rsLast.op = "next"
    /\ rsLast.ret = FALSE
    /\ rsRunStart = 1
    /\ count(container) = 3
    /\ rsNexts = 3

\* ---------------------------------------------------- PreparedStatement claims

AllOk(res) == \A i \in DOMAIN res : res[i] = SQLITE_OK
CountError == "Count of arguments does not equal count of questionmarks"

\* C1: whatever bind, reset, execute and executeQuery calls came before, a bind call
\* with exactly paramCount values (0 included) whose engine bindings all succeed
\* completes without failure, and a bind call with any other number of values fails
\* with the parameter-count error and performs no engine binding.
C1_BindByCount ==
    psLast.op = "bind" =>
        IF psLast.n = paramCount
        THEN AllOk(psLast.res) => psLast.outcome = "ok"
        ELSE psLast.outcome = CountError /\ psLast.attempts = <<>>

\* C9: a bind call with exactly paramCount values attempts the engine binding at
\* every position 1..paramCount in order, and fails if the engine rejected the
\* binding at any position.
C9_BindFailsOnAnyPosition ==
    (psLast.op = "bind" /\ psLast.n = paramCount) =>
        /\ psLast.attempts = [i \in 1..paramCount |-> i]
        /\ ~AllOk(psLast.res) => psLast.outcome = "sqlite3_errmsg"

\* C5: over creation, move construction, move assignment (self-assignment
\* included) and destruction, a compiled handle is held by at most one live
\* object, a moved-from source holds none, sqlite3_finalize is only called on a
\* compiled handle its caller owns, no handle is finalized twice, and once no
\* object is left every compiled handle has been finalized exactly once.
C5_SingleOwner ==
    /\ \A h \in Handles : Cardinality({o \in Objs : life[o] = "live" /\ stmt[o] = h}) <= 1
    /\ mvLast.op \in {"moveCtor", "opAssign"} => stmt[mvLast.ps] = nullptr
    /\ ~badFinal
    /\ \A p \in DOMAIN finCalls : finCalls[p] <= 1
    /\ (\A o \in Objs : life[o] # "live")
          => \A h \in Handles : hstate[h] # "unused" => finCalls[h] = 1

\* ------------------------------------------------------------ SQLite3 claims

RawCall == cnLast.op \in {"execute", "executeQuery"}
Refused ==
    /\ cnLast.outcome = "No sql parameter"
    /\ cnLast.calls = 0
    /\ result = cnLast.result0
    /\ errMsg = cnLast.errMsg0

\* C2 as stated: execute(sql) and executeQuery(sql) with sql null or the empty string
\* fail with "No sql parameter" and make no engine call: result and errMsg stay.
C2_NullOrEmpty == (RawCall /\ cnLast.sql \in {NULL, ""}) => Refused

\* C2 as amended: execute(sql) and executeQuery(sql) with a null sql fail with
\* "No sql parameter" and make no engine call: result and errMsg stay. Any other
\* sql, the empty string included, is handed to the engine once, and the call
\* fails exactly when the engine reports non-success.
C2_NullOnly ==
    /\ (RawCall /\ cnLast.sql = NULL) => Refused
    /\ (RawCall /\ cnLast.sql # NULL) =>
          /\ cnLast.calls = 1
          /\ result = cnLast.res
          /\ cnLast.outcome = (IF cnLast.res = SQLITE_OK THEN "ok" ELSE "errMsg")

C2_Witness ==
    /\ cnLast.op = "executeQuery"
    /\ cnLast.sql = NULL
    /\ cnLast.outcome = "No sql parameter"
    /\ result = SQLITE_ERROR
    /\ errMsg # nullptr

\* C6: construction completes without failure iff open returned success and the
\* creation script, if one is given, returned success; so isPrepared() is true on
\* every constructed connection.
C6_ConstructIff ==
    cnLast.op = "SQLite3" =>
        /\ (cnLast.outcome = "ok")
              <=> (cnLast.open = SQLITE_OK /\ (cnLast.sql # NULL => cnLast.res = SQLITE_OK))
        /\ cnLast.outcome = "ok" => isPrepared(CnState)

\* C10: over raw execute, executeQuery, beginTransaction and endTransaction calls
\* followed by destruction, no message buffer is freed twice, no buffer is lost
\* when a later call overwrites errMsg (an unfreed buffer is the one retained),
\* and after destruction every buffer the engine allocated has been freed once.
C10_BuffersFreedOnce ==
    /\ \A b \in DOMAIN bufFrees : bufFrees[b] <= 1
    /\ cLife = "live" => \A b \in DOMAIN bufFrees : bufFrees[b] = 0 => errMsg = b
    /\ cLife = "dead" => \A b \in DOMAIN bufFrees : bufFrees[b] = 1

\* ------------------------------------------------------- TransactionGuard claims

\* C7: a guard whose construction completed (its BEGIN succeeded) has issued no END
\* while its scope is open and exactly one END once its scope is left, on the
\* normal and on the exceptional path alike, and no failure of that END leaves
\* the destructor; a guard whose BEGIN failed issues no END.
C7_GuardEndsOnce ==
    \A g \in Guards : gBegun[g] =>
        /\ gLife[g] \in {"active", "failed", "dead"}
        /\ gLife[g] \in {"active", "failed"} => (gEnds[g] = 0 /\ ~gEscaped[g])
        /\ gLife[g] = "dead" =>
              /\ gEnds[g] = 1
              /\ ~gEscaped[g]
              /\ gExit[g].path \in {"normal", "exception"}

C7_Witness ==
    /\ gBegun[1] /\ gLife[1] = "dead"
    /\ gExit[1] = [path |-> "exception", res |-> SQLITE_ERROR]
    /\ gBegun[2] /\ gLife[2] = "dead"
    /\ gExit[2] = [path |-> "normal", res |-> SQLITE_OK]
====
